---- MODULE Spec2Model ----
(***************************************************************************)
(* Nearest-centroid image classifier pipeline:                             *)
(*   01_train_test_split.py   split_dataset                                *)
(*   02_process_all_data.py   process_dataset                              *)
(*   03_calculating_centroid.py calculate_and_visualize_centroids          *)
(*   04_evaluate_distance.py  d_euclidean, d_manhattan, d_cosine,          *)
(*                            run_evaluation                               *)
(*   00_Image_32x32_converter.py convert_image_to_32x32, convert_folder    *)
(*                                                                         *)
(* Numbers.  A Sample Vector is what np.array(img).flatten() gives: dtype  *)
(* uint8, arithmetic modulo 2^8.  A Centroid is np.mean(matrix, axis=0):   *)
(* dtype float64.  float64 values are modelled as exact rationals          *)
(* num/den (rounding is not modelled); a vector is                         *)
(*   [dt |-> "u8" | "f64", num |-> <<integers>>, den |-> positive int].    *)
(* A square root is kept as its radicand.                                  *)
(***************************************************************************)
EXTENDS Integers, Sequences, FiniteSets, TLC

VARIABLES
    \* ---- d_euclidean / d_manhattan / d_cosine called on a pair of vectors
    dv1, dv2, dcall, dret, drev,
    \* ---- run_evaluation: the disk
    centroid_dir,         \* centroids/Centroid_<class>.npy, or Absent
    test_dir,             \* processed_data/test/<class>: [exists, vecs]
    written,              \* files of evaluation_results/ written by this run
    \* ---- run_evaluation: locals
    pc_e, centroids, results, confusion_matrices, correct_counts,
    total_images, e_ci, e_files, dists, preds, e_outcome, e_stdout,
    \* ---- split_dataset: the disk
    raw_data,             \* raw_data/<class>: [exists, images]
    dataset_train,        \* dataset_train/<class>: [exists, files]
    dataset_test,         \* dataset_test/<class>: [exists, files]
    \* ---- split_dataset: locals
    pc_s, s_ci, test_files, train_files, s_stdout,
    \* ---- process_dataset(create_matrix=True), calculate_and_visualize_centroids
    train_input,          \* dataset_train/<class>: [exists, images] in listing order
    proc_train,           \* processed_data/train/<class>: [exists, vecs]
    matrix_dir,           \* processed_data/train/Matrix_<class>.npy
    centroid_out,         \* centroids/Centroid_<class>.npy
    pc_t, run_no, n_vectors, centroids_written, t_stdout,
    \* ---- convert_folder
    input_folder,         \* the source folder: [exists, is_dir, image_files]
    output_folder,        \* indices n of the <base_name><n>.png files written
    pc_c, index, stats, c_stdout

distVars == <<dv1, dv2, dcall, dret, drev>>

evalDisk == <<centroid_dir, test_dir>>

evalVars == <<centroid_dir, test_dir, written, pc_e, centroids, results,
              confusion_matrices, correct_counts, total_images, e_ci, e_files,
              dists, preds, e_outcome, e_stdout>>

splitVars == <<raw_data, dataset_train, dataset_test, pc_s, s_ci, test_files,
               train_files, s_stdout>>

trainVars == <<train_input, proc_train, matrix_dir, centroid_out, pc_t, run_no,
               n_vectors, centroids_written, t_stdout>>

convVars == <<input_folder, output_folder, pc_c, index, stats, c_stdout>>

vars == <<distVars, evalVars, splitVars, trainVars, convVars>>

notDist == <<evalVars, splitVars, trainVars, convVars>>

notEval == <<distVars, splitVars, trainVars, convVars>>

notSplit == <<distVars, evalVars, trainVars, convVars>>

notTrain == <<distVars, evalVars, splitVars, convVars>>

notConv == <<distVars, evalVars, splitVars, trainVars>>

--------------------------------------------------------------------------
\* Bounds of the model

\* Dimension of a vector (3072 in the pipeline).
Dim == 2

\* Rows of a training matrix a modelled centroid is the mean of.
MaxRows == 2

\* Test vectors on disk, over all classes, when run_evaluation starts.
MaxTest == 2

\* Image files from the SPLIT_COUNT-th on in the raw_data folders, over all
\* classes: one class of SPLIT_COUNT + 1 files, or two of SPLIT_COUNT.
MaxSurplus == 2

\* Image files in the dataset_train folders, over all classes.
MaxImages == 2

\* Runs of process_dataset followed by calculate_and_visualize_centroids.
MaxRuns == 2

--------------------------------------------------------------------------
\* Configuration constants

CLASSES == <<"pizza_slice", "whole_pizza", "pizza_box">>

ClassSet == {CLASSES[i] : i \in DOMAIN CLASSES}

Metrics == <<"Euclidean", "Manhattan", "Cosine">>

MetricSet == {Metrics[i] : i \in DOMAIN Metrics}

--------------------------------------------------------------------------
\* numpy arithmetic

\* uint8 wrap-around
U8(n) == n % (2 ^ 8)

Idx == 1 .. Dim

AbsInt(n) == IF n < 0 THEN -n ELSE n

RECURSIVE SumSeq(_)
SumSeq(s) == IF s = <<>> THEN 0 ELSE Head(s) + SumSeq(Tail(s))

\* v1 - v2: uint8 - uint8 stays uint8 and wraps; anything with a float64
\* operand is float64.
Sub(v1, v2) ==
    IF v1.dt = "u8" /\ v2.dt = "u8"
    THEN [dt |-> "u8", num |-> [i \in Idx |-> U8(v1.num[i] - v2.num[i])], den |-> 1]
    ELSE [dt |-> "f64",
          num |-> [i \in Idx |-> v1.num[i] * v2.den - v2.num[i] * v1.den],
          den |-> v1.den * v2.den]

\* v ** 2: the square of a uint8 array is a uint8 array.
Square(v) ==
    IF v.dt = "u8"
    THEN [v EXCEPT !.num = [i \in Idx |-> U8(v.num[i] * v.num[i])]]
    ELSE [v EXCEPT !.num = [i \in Idx |-> v.num[i] * v.num[i]], !.den = v.den * v.den]

\* np.abs(v): the identity on an unsigned array.
Abs(v) ==
    IF v.dt = "u8" THEN v
    ELSE [v EXCEPT !.num = [i \in Idx |-> AbsInt(v.num[i])]]

\* np.sum(v): a uint8 array is accumulated in a 64-bit unsigned integer, so
\* the sum itself does not wrap.  The result is the rational num/den.
Sum(v) == [num |-> SumSeq(v.num), den |-> v.den]

\* np.dot(v1, v2): uint8 . uint8 is a uint8 scalar (wraps).
Dot(v1, v2) ==
    LET s == SumSeq([i \in Idx |-> v1.num[i] * v2.num[i]])
    IN  IF v1.dt = "u8" /\ v2.dt = "u8"
        THEN [num |-> U8(s), den |-> 1]
        ELSE [num |-> s, den |-> v1.den * v2.den]

\* np.linalg.norm(v) squared: norm converts an integer array to float first,
\* so nothing wraps.
NormSq(v) == [num |-> SumSeq([i \in Idx |-> v.num[i] * v.num[i]]), den |-> v.den * v.den]

--------------------------------------------------------------------------
\* 04_evaluate_distance.py: the distance functions.
\* A Euclidean distance is [kind |-> "sqrt", num, den]: sqrt(num/den).
\* A Manhattan distance is [kind |-> "rat", num, den]: num/den.
\* A cosine distance is [kind |-> "cos", dot, n1, n2, divided]:
\*   1 - dot / (sqrt(n1) * sqrt(n2)) when divided, the literal 1.0 otherwise.

d_euclidean(v1, v2) ==
    LET s == Sum(Square(Sub(v1, v2)))
    IN  [kind |-> "sqrt", num |-> s.num, den |-> s.den]

d_manhattan(v1, v2) ==
    LET s == Sum(Abs(Sub(v1, v2)))
    IN  [kind |-> "rat", num |-> s.num, den |-> s.den]

Rat(n) == [num |-> n, den |-> 1]

OnePointZero == [kind |-> "cos", dot |-> Rat(0), n1 |-> Rat(1), n2 |-> Rat(1), divided |-> FALSE]

d_cosine_OnlyFirstNorm(v1, v2) ==
    LET dot_product == Dot(v1, v2)
        norm_v1 == NormSq(v1)
        norm_v2 == NormSq(v2)
    IN  IF norm_v1.num = 0 THEN OnePointZero
        ELSE [kind |-> "cos", dot |-> dot_product, n1 |-> norm_v1, n2 |-> norm_v2,
              divided |-> TRUE]

d_cosine(v1, v2) ==
    LET dot_product == Dot(v1, v2)
        norm_v1 == NormSq(v1)
        norm_v2 == NormSq(v2)
    IN  IF norm_v1.num = 0 \/ norm_v2.num = 0 THEN OnePointZero
        ELSE [kind |-> "cos", dot |-> dot_product, n1 |-> norm_v1, n2 |-> norm_v2,
              divided |-> TRUE]

\* Order and equality of two distances of the same kind, as real numbers.
\* In the pipeline every dot product is >= 0 (no component is negative).
DistLess(a, b) ==
    IF a.kind = "cos"
    THEN \* 1 - da/sqrt(na) < 1 - db/sqrt(nb)  iff  da^2 * nb > db^2 * na
         (a.dot.num * a.dot.num) * (b.dot.den * b.dot.den)
            * (b.n1.num * b.n2.num) * (a.n1.den * a.n2.den)
         > (b.dot.num * b.dot.num) * (a.dot.den * a.dot.den)
            * (a.n1.num * a.n2.num) * (b.n1.den * b.n2.den)
    ELSE a.num * b.den < b.num * a.den

DistEq(a, b) == ~DistLess(a, b) /\ ~DistLess(b, a)

IsZero(d) == d.num = 0

NonNegative(d) == d.num >= 0 /\ d.den > 0

--------------------------------------------------------------------------
\* Vectors the pipeline produces

\* Pixel values of a Sample Vector handed to a distance function.
Pixels8 == {0, 1, 16, 255}

SampleVec(s) == [dt |-> "u8", num |-> s, den |-> 1]

Samples8 == {SampleVec(s) : s \in [Idx -> Pixels8]}

\* 03_calculating_centroid.py: np.mean(matrix_X, axis=0) of a matrix of
\* uint8 rows: the column sums (taken in float64) over the row count.
Mean(rows) ==
    [dt |-> "f64",
     num |-> [i \in Idx |-> SumSeq([r \in DOMAIN rows |-> rows[r].num[i]])],
     den |-> Len(rows)]

Matrices8 == UNION {[1 .. n -> Samples8] : n \in 1 .. MaxRows}

Centroids8 == {Mean(m) : m \in Matrices8}

--------------------------------------------------------------------------
\* The distance functions called on a pair (dv1, dv2), and on the swapped
\* pair (drev), as a caller of the module may do.

DistInit ==
    /\ dv1 \in Samples8
    /\ dv2 \in Samples8 \cup Centroids8
    /\ dcall = "none"
    /\ dret = << >>
    /\ drev = << >>

Call_d_euclidean ==
    /\ dcall = "none"
    /\ dcall' = "d_euclidean"
    /\ dret' = d_euclidean(dv1, dv2)
    /\ drev' = d_euclidean(dv2, dv1)
    /\ UNCHANGED <<dv1, dv2>>
    /\ UNCHANGED notDist

Call_d_manhattan ==
    /\ dcall = "none"
    /\ dcall' = "d_manhattan"
    /\ dret' = d_manhattan(dv1, dv2)
    /\ drev' = d_manhattan(dv2, dv1)
    /\ UNCHANGED <<dv1, dv2>>
    /\ UNCHANGED notDist

Call_d_cosine ==
    /\ dcall = "none"
    /\ dcall' = "d_cosine"
    /\ dret' = d_cosine(dv1, dv2)
    /\ drev' = d_cosine(dv2, dv1)
    /\ UNCHANGED <<dv1, dv2>>
    /\ UNCHANGED notDist

DistNext ==
    \/ Call_d_euclidean
    \/ Call_d_manhattan
    \/ Call_d_cosine


--------------------------------------------------------------------------
\* 04_evaluate_distance.py: run_evaluation

\* No Centroid_<class>.npy on disk.
Absent == [dt |-> "absent", num |-> <<>>, den |-> 1]

\* Pixel values of the test vectors and of the training rows behind the
\* centroids that run_evaluation is run on.
PixelHigh == 2

ZeroVec == SampleVec([i \in Idx |-> 0])

FirstAxisVec == SampleVec([i \in Idx |-> IF i = 1 THEN PixelHigh ELSE 0])

FullVec == SampleVec([i \in Idx |-> PixelHigh])

EvalSamples == {ZeroVec, FirstAxisVec, FullVec}

EvalCentroids == {Mean(<<ZeroVec>>), Mean(<<FullVec>>), Mean(<<FullVec, FirstAxisVec>>)}

\* A class folder of processed_data/test: absent, or sample i saved as
\* test_<class>_<i>.npy and test_<class>_<i>.csv.
TestFolders ==
    {[exists |-> FALSE, vecs |-> <<>>]}
    \cup {[exists |-> TRUE, vecs |-> s] :
            s \in UNION {[1 .. n -> EvalSamples] : n \in 0 .. MaxTest}}

ListDir(folder) ==
    {[idx |-> i, ext |-> e] : i \in DOMAIN folder.vecs, e \in {"npy", "csv"}}

\* every order os.listdir may give the kept names in
RECURSIVE Orders(_)
Orders(S) ==
    IF S = {} THEN {<< >>}
    ELSE UNION {{<<f>> \o rest : rest \in Orders(S \ {f})} : f \in S}

NpyFiles(folder) == {f \in ListDir(folder) : f.ext = "npy"}

Distance(metric, x, mu) ==
    CASE metric = "Euclidean" -> d_euclidean(x, mu)
      [] metric = "Manhattan" -> d_manhattan(x, mu)
      [] metric = "Cosine"    -> d_cosine(x, mu)

\* min(d, key=d.get) over a dict whose keys were inserted in CLASSES order:
\* the first key is kept until a strictly smaller value is met.
RECURSIVE MinScan(_, _, _)
MinScan(d, i, best) ==
    IF i > Len(CLASSES) THEN best
    ELSE MinScan(d, i + 1, IF DistLess(d[CLASSES[i]], d[best]) THEN CLASSES[i] ELSE best)

RECURSIVE MinScanLast(_, _, _)
MinScanLast(d, i, best) ==
    IF i > Len(CLASSES) THEN best
    ELSE MinScanLast(d, i + 1, IF ~DistLess(d[best], d[CLASSES[i]]) THEN CLASSES[i] ELSE best)

ArgminLastWins(d) == MinScanLast(d, 2, CLASSES[1])

Argmin(d) == MinScan(d, 2, CLASSES[1])

BumpTransposed(cm, metric, true_class, pred) ==
    [cm EXCEPT ![metric][pred][true_class] = @ + 1]

\* confusion_matrices[metric][true_class][preds[metric]] += 1
Bump(cm, metric, true_class, pred) ==
    [cm EXCEPT ![metric][true_class][pred] = @ + 1]

CountCorrectAlways(n, pred, true_class) == n + 1

\* if preds[metric] == true_class: correct_counts[metric] += 1
CountCorrect(n, pred, true_class) == IF pred = true_class THEN n + 1 ELSE n

RECURSIVE BumpAll(_, _, _, _)
BumpAll(cm, i, true_class, p) ==
    IF i > Len(Metrics) THEN cm
    ELSE BumpAll(Bump(cm, Metrics[i], true_class, p[Metrics[i]]), i + 1, true_class, p)

FirstMissingOnlyFirstClass(dir) ==
    IF dir[CLASSES[1]] = Absent THEN 1 ELSE 0

\* The first class, in CLASSES order, whose centroid file is absent; 0 if
\* every centroid file exists.
FirstMissing(dir) ==
    IF \E i \in DOMAIN CLASSES : dir[CLASSES[i]] = Absent
    THEN CHOOSE i \in DOMAIN CLASSES :
            /\ dir[CLASSES[i]] = Absent
            /\ \A j \in 1 .. i - 1 : dir[CLASSES[j]] # Absent
    ELSE 0

ZeroMatrix == [t \in ClassSet |-> [p \in ClassSet |-> 0]]

EvalInit ==
    /\ centroid_dir \in [ClassSet -> EvalCentroids \cup {Absent}]
    /\ test_dir \in {d \in [ClassSet -> TestFolders] :
                        SumSeq([i \in DOMAIN CLASSES |-> Len(d[CLASSES[i]].vecs)]) <= MaxTest}
    /\ written = {}
    /\ pc_e = "start"
    /\ centroids = << >>
    /\ results = << >>
    /\ confusion_matrices = [m \in MetricSet |-> ZeroMatrix]
    /\ correct_counts = [m \in MetricSet |-> 0]
    /\ total_images = 0
    /\ e_ci = 1
    /\ e_files = << >>
    /\ dists = << >>
    /\ preds = << >>
    /\ e_outcome = "running"
    /\ e_stdout = << >>

EvalIdle ==
    /\ centroid_dir = << >>
    /\ test_dir = << >>
    /\ written = {}
    /\ pc_e = "idle"
    /\ centroids = << >>
    /\ results = << >>
    /\ confusion_matrices = << >>
    /\ correct_counts = << >>
    /\ total_images = 0
    /\ e_ci = 0
    /\ e_files = << >>
    /\ dists = << >>
    /\ preds = << >>
    /\ e_outcome = "idle"
    /\ e_stdout = << >>

\* Steps 1-3: the centroids are loaded in CLASSES order; the first absent
\* file ends the run.
LoadCentroids ==
    /\ pc_e = "start"
    /\ LET miss == FirstMissing(centroid_dir)
       IN  IF miss # 0
           THEN /\ e_stdout' = Append(e_stdout, [msg |-> "Missing centroid", class |-> CLASSES[miss]])
                /\ e_outcome' = "missing_centroid"
                /\ pc_e' = "done"
                /\ centroids' = [c \in {CLASSES[j] : j \in 1 .. miss - 1} |-> centroid_dir[c]]
           ELSE /\ e_stdout' = Append(e_stdout, [msg |-> "Starting Evaluation", class |-> ""])
                /\ pc_e' = "classes"
                /\ centroids' = centroid_dir
                /\ UNCHANGED e_outcome
    /\ UNCHANGED <<evalDisk, written, results, confusion_matrices, correct_counts,
                   total_images, e_ci, e_files, dists, preds>>
    /\ UNCHANGED notEval

\* for true_class in CLASSES: if not os.path.exists(class_dir): continue
SkipClass ==
    /\ pc_e = "classes"
    /\ e_ci <= Len(CLASSES)
    /\ ~test_dir[CLASSES[e_ci]].exists
    /\ e_ci' = e_ci + 1
    /\ UNCHANGED <<evalDisk, written, pc_e, centroids, results, confusion_matrices,
                   correct_counts, total_images, e_files, dists, preds, e_outcome, e_stdout>>
    /\ UNCHANGED notEval

\* files = [f for f in os.listdir(class_dir) if f.endswith('.npy')]
ListClass ==
    /\ pc_e = "classes"
    /\ e_ci <= Len(CLASSES)
    /\ test_dir[CLASSES[e_ci]].exists
    /\ e_files' \in Orders(NpyFiles(test_dir[CLASSES[e_ci]]))
    /\ pc_e' = "files"
    /\ UNCHANGED <<evalDisk, written, centroids, results, confusion_matrices,
                   correct_counts, total_images, e_ci, dists, preds, e_outcome, e_stdout>>
    /\ UNCHANGED notEval

\* One iteration of: for filename in files
ProcessFile ==
    /\ pc_e = "files"
    /\ e_files # << >>
    /\ LET filename == Head(e_files)
           true_class == CLASSES[e_ci]
           x == test_dir[true_class].vecs[filename.idx]
           d == [m \in MetricSet |-> [k \in ClassSet |-> Distance(m, x, centroids[k])]]
           p == [m \in MetricSet |-> Argmin(d[m])]
       IN  /\ total_images' = total_images + 1
           /\ dists' = d
           /\ preds' = p
           /\ correct_counts' =
                [m \in MetricSet |-> CountCorrect(correct_counts[m], p[m], true_class)]
           /\ confusion_matrices' = BumpAll(confusion_matrices, 1, true_class, p)
           /\ results' = Append(results,
                [Image |-> filename, True_Class |-> true_class,
                 Pred_E |-> p["Euclidean"], Pred_M |-> p["Manhattan"], Pred_C |-> p["Cosine"]])
    /\ e_files' = Tail(e_files)
    /\ UNCHANGED <<evalDisk, written, pc_e, centroids, e_ci, e_outcome, e_stdout>>
    /\ UNCHANGED notEval

EndClass ==
    /\ pc_e = "files"
    /\ e_files = << >>
    /\ e_ci' = e_ci + 1
    /\ pc_e' = "classes"
    /\ UNCHANGED <<evalDisk, written, centroids, results, confusion_matrices,
                   correct_counts, total_images, e_files, dists, preds, e_outcome, e_stdout>>
    /\ UNCHANGED notEval

OutputFiles ==
    {"detailed_predictions.csv", "accuracy_summary.txt"}
    \cup {"confusion_matrix_" \o Metrics[i] \o ".csv" : i \in DOMAIN Metrics}

\* Step 5.  keys = results[0].keys() comes before any file is opened: with no
\* row it raises IndexError, which nothing catches.  With a row,
\* total_images > 0 and every file is written.
SaveFiles ==
    /\ pc_e = "classes"
    /\ e_ci > Len(CLASSES)
    /\ pc_e' = "done"
    /\ IF results = << >>
       THEN /\ e_outcome' = "IndexError"
            /\ UNCHANGED <<written, e_stdout>>
       ELSE /\ e_outcome' = IF total_images = 0 THEN "ZeroDivisionError" ELSE "returned"
            /\ written' = IF total_images = 0
                          THEN OutputFiles \ {"accuracy_summary.txt"}
                          ELSE OutputFiles
            /\ e_stdout' = e_stdout \o [i \in 1 .. Cardinality(written') |-> [msg |-> "Saved", class |-> ""]]
    /\ UNCHANGED <<evalDisk, centroids, results, confusion_matrices, correct_counts,
                   total_images, e_ci, e_files, dists, preds>>
    /\ UNCHANGED notEval

EvalNext ==
    \/ LoadCentroids
    \/ SkipClass
    \/ ListClass
    \/ ProcessFile
    \/ EndClass
    \/ SaveFiles

--------------------------------------------------------------------------
\* 01_train_test_split.py: split_dataset

SPLIT_COUNT == 5

ImageExts == <<".png", ".JPG", ".jpeg">>

\* f.lower() on the extensions that occur
Lower(ext) == IF ext = ".JPG" THEN ".jpg" ELSE ext

\* A folder of raw_data holding n image files, and a file that is no image.
RawNames(n) ==
    {[idx |-> i, ext |-> ImageExts[(i % Len(ImageExts)) + 1]] : i \in 1 .. n}
    \cup {[idx |-> 0, ext |-> ".txt"]}

RawCounts == {0, SPLIT_COUNT - 1} \cup (SPLIT_COUNT .. SPLIT_COUNT - 1 + MaxSurplus)

RawFolders ==
    {[exists |-> FALSE, names |-> {}]}
    \cup {[exists |-> TRUE, names |-> RawNames(n)] : n \in RawCounts}

\* [f for f in os.listdir(src_path) if f.lower().endswith(('.png', '.jpg', '.jpeg'))]
ImageFiles(folder) ==
    {f \in folder.names : Lower(f.ext) \in {".png", ".jpg", ".jpeg"}}

Surplus(folder) ==
    IF Cardinality(ImageFiles(folder)) >= SPLIT_COUNT
    THEN Cardinality(ImageFiles(folder)) - SPLIT_COUNT + 1 ELSE 0

Range(seq) == {seq[i] : i \in DOMAIN seq}

Min(a, b) == IF a < b THEN a ELSE b

\* files[:SPLIT_COUNT]
TestSlice(files) == SubSeq(files, 1, Min(SPLIT_COUNT, Len(files)))

TrainSliceOverlap(files) == SubSeq(files, SPLIT_COUNT, Len(files))

\* files[SPLIT_COUNT:]
TrainSlice(files) == SubSeq(files, SPLIT_COUNT + 1, Len(files))

NoFolder == [exists |-> FALSE, files |-> {}]

SplitInit ==
    /\ raw_data \in {r \in [ClassSet -> RawFolders] :
                        SumSeq([i \in DOMAIN CLASSES |-> Surplus(r[CLASSES[i]])]) <= MaxSurplus}
    /\ dataset_train = [c \in ClassSet |-> NoFolder]
    /\ dataset_test = [c \in ClassSet |-> NoFolder]
    /\ pc_s = "start"
    /\ s_ci = 1
    /\ test_files = << >>
    /\ train_files = << >>
    /\ s_stdout = << >>

SplitIdle ==
    /\ raw_data = << >>
    /\ dataset_train = << >>
    /\ dataset_test = << >>
    /\ pc_s = "idle"
    /\ s_ci = 0
    /\ test_files = << >>
    /\ train_files = << >>
    /\ s_stdout = << >>

\* 1. Create Train/Test directories
SplitStart ==
    /\ pc_s = "start"
    /\ pc_s' = "loop"
    /\ UNCHANGED <<raw_data, dataset_train, dataset_test, s_ci, test_files,
                   train_files, s_stdout>>
    /\ UNCHANGED notSplit

\* One iteration of: for class_name in CLASSES, the source folder missing.
\* The two destination folders are made before the source is looked at.
SplitMissing ==
    /\ pc_s = "loop"
    /\ s_ci <= Len(CLASSES)
    /\ LET class_name == CLASSES[s_ci]
       IN  /\ ~raw_data[class_name].exists
           /\ dataset_train' = [dataset_train EXCEPT ![class_name].exists = TRUE]
           /\ dataset_test' = [dataset_test EXCEPT ![class_name].exists = TRUE]
           /\ s_stdout' = s_stdout \o
                <<[msg |-> "Splitting Class", class |-> class_name, n |-> 0],
                  [msg |-> "[Error] Missing source folder", class |-> class_name, n |-> 0]>>
    /\ s_ci' = s_ci + 1
    /\ UNCHANGED <<raw_data, pc_s, test_files, train_files>>
    /\ UNCHANGED notSplit

\* One iteration of: for class_name in CLASSES, the source folder present:
\* shuffle, slice, report the three counts, copy.
SplitClass ==
    /\ pc_s = "loop"
    /\ s_ci <= Len(CLASSES)
    /\ LET class_name == CLASSES[s_ci]
       IN  /\ raw_data[class_name].exists
           /\ \E files \in Orders(ImageFiles(raw_data[class_name])) :
                /\ test_files' = TestSlice(files)
                /\ train_files' = TrainSlice(files)
                /\ s_stdout' = s_stdout \o
                     <<[msg |-> "Splitting Class", class |-> class_name, n |-> 0],
                       [msg |-> "Total Images", class |-> class_name, n |-> Len(files)],
                       [msg |-> "Training Set", class |-> class_name, n |-> Len(train_files')],
                       [msg |-> "Testing Set", class |-> class_name, n |-> Len(test_files')]>>
           /\ dataset_test' = [dataset_test EXCEPT ![class_name] =
                [exists |-> TRUE, files |-> @.files \cup Range(test_files')]]
           /\ dataset_train' = [dataset_train EXCEPT ![class_name] =
                [exists |-> TRUE, files |-> @.files \cup Range(train_files')]]
    /\ s_ci' = s_ci + 1
    /\ UNCHANGED <<raw_data, pc_s>>
    /\ UNCHANGED notSplit

SplitDone ==
    /\ pc_s = "loop"
    /\ s_ci > Len(CLASSES)
    /\ pc_s' = "done"
    /\ s_stdout' = Append(s_stdout, [msg |-> "[Done] Dataset split complete.", class |-> "", n |-> 0])
    /\ UNCHANGED <<raw_data, dataset_train, dataset_test, s_ci, test_files, train_files>>
    /\ UNCHANGED notSplit

SplitNext ==
    \/ SplitStart
    \/ SplitMissing
    \/ SplitClass
    \/ SplitDone

\* The script run again over the same raw_data: nothing clears dataset_train
\* or dataset_test, the console goes on, the locals start afresh.
MaxSplitRuns == 2

SplitRuns ==
    Cardinality({i \in DOMAIN s_stdout : s_stdout[i].msg = "[Done] Dataset split complete."})

SplitAgain ==
    /\ pc_s = "done"
    /\ SplitRuns < MaxSplitRuns
    /\ pc_s' = "start"
    /\ s_ci' = 1
    /\ test_files' = << >>
    /\ train_files' = << >>
    /\ UNCHANGED <<raw_data, dataset_train, dataset_test, s_stdout>>
    /\ UNCHANGED notSplit

ResplitNext ==
    \/ SplitStart
    \/ SplitMissing
    \/ SplitClass
    \/ SplitDone
    \/ SplitAgain

--------------------------------------------------------------------------
\* 02_process_all_data.py: process_dataset(TRAIN_INPUT, TRAIN_OUTPUT,
\* create_matrix=True), and 03_calculating_centroid.py

\* An image file is modelled by the vector that open/convert/resize/flatten
\* gives for it, or Corrupt when one of them raises.
Corrupt == [dt |-> "corrupt", num |-> <<>>, den |-> 1]

TrainImages == {Corrupt, FirstAxisVec, FullVec}

\* A class folder of dataset_train: absent, or its image files in the order
\* os.listdir gives them.  File i of the listing is saved under index i.
TrainFolders ==
    {[exists |-> FALSE, images |-> <<>>]}
    \cup {[exists |-> TRUE, images |-> s] :
            s \in UNION {[1 .. n -> TrainImages] : n \in 0 .. MaxImages}}

IsVector(im) == im # Corrupt

\* class_vectors after the loop over image_files: a failed file adds nothing
ClassVectors(create_matrix, folder) ==
    IF create_matrix THEN SelectSeq(folder.images, IsVector) ELSE << >>

\* the <prefix>_<class>_<idx>.npy / .csv files the loop saves
SavedVectors(folder) ==
    [i \in {j \in DOMAIN folder.images : IsVector(folder.images[j])} |-> folder.images[i]]

\* np.save over a folder that may hold files of an earlier run
Overwrite(old, new) ==
    [i \in DOMAIN old \cup DOMAIN new |-> IF i \in DOMAIN new THEN new[i] ELSE old[i]]

NoMatrix == [exists |-> FALSE, rows |-> <<>>, run |-> 0]

NoCentroid == [exists |-> FALSE, vec |-> Absent, matrix_run |-> 0]

\* 5. Create & Save Class Matrix X_k: only when a vector was collected;
\* otherwise the file on disk is left as it is.
SaveMatrix(create_matrix, class_vectors, old, run) ==
    IF create_matrix /\ Len(class_vectors) > 0
    THEN [exists |-> TRUE, rows |-> class_vectors, run |-> run]
    ELSE old

\* what one class iteration of process_dataset prints
RECURSIVE FileErrors(_, _, _)
FileErrors(class_name, images, i) ==
    IF i > Len(images) THEN << >>
    ELSE (IF IsVector(images[i]) THEN << >>
          ELSE <<[msg |-> "[Error] Could not process", class |-> class_name, n |-> i]>>)
         \o FileErrors(class_name, images, i + 1)

ProcessClassLog(create_matrix, class_name, folder) ==
    IF ~folder.exists
    THEN <<[msg |-> "[Warning] Missing folder", class |-> class_name, n |-> 0]>>
    ELSE <<[msg |-> "Found images", class |-> class_name, n |-> Len(folder.images)]>>
         \o FileErrors(class_name, folder.images, 1)
         \o (IF create_matrix /\ Len(ClassVectors(create_matrix, folder)) > 0
             THEN <<[msg |-> "Created Matrix", class |-> class_name,
                     n |-> Len(ClassVectors(create_matrix, folder))]>>
             ELSE << >>)

RECURSIVE ProcessLog(_, _, _)
ProcessLog(create_matrix, input, i) ==
    IF i > Len(CLASSES) THEN << >>
    ELSE ProcessClassLog(create_matrix, CLASSES[i], input[CLASSES[i]])
         \o ProcessLog(create_matrix, input, i + 1)

RECURSIVE CentroidLog(_, _)
CentroidLog(matrices, i) ==
    IF i > Len(CLASSES) THEN << >>
    ELSE (IF matrices[CLASSES[i]].exists
          THEN <<[msg |-> "Calculated Mean Vector", class |-> CLASSES[i], n |-> 0]>>
          ELSE <<[msg |-> "[Error] Matrix not found", class |-> CLASSES[i], n |-> 0]>>)
         \o CentroidLog(matrices, i + 1)

TrainInit ==
    /\ train_input \in {t \in [ClassSet -> TrainFolders] :
                          SumSeq([i \in DOMAIN CLASSES |-> Len(t[CLASSES[i]].images)]) <= MaxImages}
    /\ proc_train = [c \in ClassSet |-> [exists |-> FALSE, vecs |-> << >>]]
    /\ matrix_dir = [c \in ClassSet |-> NoMatrix]
    /\ centroid_out = [c \in ClassSet |-> NoCentroid]
    /\ pc_t = "process"
    /\ run_no = 0
    /\ n_vectors = [c \in ClassSet |-> 0]
    /\ centroids_written = {}
    /\ t_stdout = << >>

TrainIdle ==
    /\ train_input = << >>
    /\ proc_train = << >>
    /\ matrix_dir = << >>
    /\ centroid_out = << >>
    /\ pc_t = "idle"
    /\ run_no = 0
    /\ n_vectors = << >>
    /\ centroids_written = {}
    /\ t_stdout = << >>

\* One run of process_dataset("dataset_train", "processed_data/train", True).
\* run_no counts the runs; n_vectors is len(class_vectors) of each class in
\* this run (0 for a class whose folder is missing).
ProcessDataset ==
    /\ pc_t = "process"
    /\ run_no' = run_no + 1
    /\ proc_train' =
         [c \in ClassSet |->
            [exists |-> TRUE,
             vecs |-> IF train_input[c].exists
                      THEN Overwrite(proc_train[c].vecs, SavedVectors(train_input[c]))
                      ELSE proc_train[c].vecs]]
    /\ matrix_dir' =
         [c \in ClassSet |->
            IF train_input[c].exists
            THEN SaveMatrix(TRUE, ClassVectors(TRUE, train_input[c]), matrix_dir[c], run_no')
            ELSE matrix_dir[c]]
    /\ n_vectors' =
         [c \in ClassSet |->
            IF train_input[c].exists THEN Len(ClassVectors(TRUE, train_input[c])) ELSE 0]
    /\ t_stdout' = ProcessLog(TRUE, train_input, 1)
    /\ pc_t' = "centroids"
    /\ UNCHANGED <<train_input, centroid_out, centroids_written>>
    /\ UNCHANGED notTrain

\* One run of calculate_and_visualize_centroids: a class without a matrix
\* file is reported and skipped; every matrix file found is averaged.
CalculateCentroids ==
    /\ pc_t = "centroids"
    /\ centroid_out' =
         [c \in ClassSet |->
            IF matrix_dir[c].exists
            THEN [exists |-> TRUE, vec |-> Mean(matrix_dir[c].rows),
                  matrix_run |-> matrix_dir[c].run]
            ELSE centroid_out[c]]
    /\ centroids_written' = {c \in ClassSet : matrix_dir[c].exists}
    /\ t_stdout' = CentroidLog(matrix_dir, 1)
    /\ pc_t' = IF run_no < MaxRuns THEN "edit" ELSE "done"
    /\ UNCHANGED <<train_input, proc_train, matrix_dir, run_no, n_vectors>>
    /\ UNCHANGED notTrain

\* Between two runs of the pipeline the user empties or removes one class
\* folder of dataset_train.
EditInput ==
    /\ pc_t = "edit"
    /\ \E c \in ClassSet, gone \in BOOLEAN :
         /\ train_input[c].exists
         /\ train_input' = [train_input EXCEPT ![c] =
                [exists |-> ~gone, images |-> << >>]]
         /\ train_input'[c] # train_input[c]
    /\ pc_t' = "process"
    /\ UNCHANGED <<proc_train, matrix_dir, centroid_out, run_no, n_vectors,
                   centroids_written, t_stdout>>
    /\ UNCHANGED notTrain

\* Between two runs of the pipeline one image file of dataset_train becomes
\* unreadable (truncated, overwritten by something that is no image).
DamageInput ==
    /\ pc_t = "edit"
    /\ \E c \in ClassSet :
         /\ train_input[c].exists
         /\ \E i \in DOMAIN train_input[c].images :
              /\ IsVector(train_input[c].images[i])
              /\ train_input' = [train_input EXCEPT ![c].images[i] = Corrupt]
    /\ pc_t' = "process"
    /\ UNCHANGED <<proc_train, matrix_dir, centroid_out, run_no, n_vectors,
                   centroids_written, t_stdout>>
    /\ UNCHANGED notTrain

TrainNext ==
    \/ ProcessDataset
    \/ CalculateCentroids
    \/ EditInput
    \/ DamageInput

--------------------------------------------------------------------------
\* 00_Image_32x32_converter.py: convert_folder

\* Image files of the source folder.
MaxConvert == 4

\* get_image_files: the supported files sorted by lower-cased name.  File i
\* of the sorted list is named i; readable tells whether
\* convert_image_to_32x32 opens, converts, resizes and saves it.
ImageLists ==
    UNION {[1 .. n -> [readable : BOOLEAN]] : n \in 0 .. MaxConvert}

InputFolders ==
    {[exists |-> FALSE, is_dir |-> FALSE, image_files |-> << >>],
     [exists |-> TRUE, is_dir |-> FALSE, image_files |-> << >>]}
    \cup {[exists |-> TRUE, is_dir |-> TRUE, image_files |-> l] : l \in ImageLists}

\* True when the PNG was saved; on an exception the error is printed and
\* False comes back.
convert_image_to_32x32(input_path) == input_path.readable

NewStats == [total |-> 0, success |-> 0, failed |-> 0, files |-> << >>]

ConvInit ==
    /\ input_folder \in InputFolders
    /\ output_folder = {}
    /\ pc_c = "start"
    /\ index = 0
    /\ stats = NewStats
    /\ c_stdout = << >>

ConvIdle ==
    /\ input_folder = << >>
    /\ output_folder = {}
    /\ pc_c = "idle"
    /\ index = 0
    /\ stats = << >>
    /\ c_stdout = << >>

\* Validate the input folder, count the image files; return at once when
\* the folder is missing, is no directory or holds no image.
ConvertStart ==
    /\ pc_c = "start"
    /\ IF ~input_folder.exists
       THEN /\ c_stdout' = <<[msg |-> "Error: does not exist", n |-> 0]>>
            /\ pc_c' = "returned"
            /\ UNCHANGED <<stats, index>>
       ELSE IF ~input_folder.is_dir
       THEN /\ c_stdout' = <<[msg |-> "Error: is not a directory", n |-> 0]>>
            /\ pc_c' = "returned"
            /\ UNCHANGED <<stats, index>>
       ELSE /\ stats' = [stats EXCEPT !.total = Len(input_folder.image_files)]
            /\ IF Len(input_folder.image_files) = 0
               THEN /\ c_stdout' = <<[msg |-> "No supported image files found", n |-> 0]>>
                    /\ pc_c' = "returned"
                    /\ UNCHANGED index
               ELSE /\ c_stdout' = <<[msg |-> "Found", n |-> Len(input_folder.image_files)]>>
                    /\ pc_c' = "loop"
                    /\ index' = 1
    /\ UNCHANGED <<input_folder, output_folder>>
    /\ UNCHANGED notConv

\* One iteration of: for index, image_file in enumerate(image_files, start=1)
ConvertOne ==
    /\ pc_c = "loop"
    /\ index <= Len(input_folder.image_files)
    /\ LET image_file == input_folder.image_files[index]
       IN  IF convert_image_to_32x32(image_file)
           THEN /\ output_folder' = output_folder \cup {index}
                /\ stats' = [stats EXCEPT
                      !.success = @ + 1,
                      !.files = Append(@, [original |-> index, converted |-> index])]
                /\ c_stdout' = Append(c_stdout, [msg |-> "Converting", n |-> index])
           ELSE /\ stats' = [stats EXCEPT !.failed = @ + 1]
                /\ c_stdout' = c_stdout \o
                      <<[msg |-> "Converting", n |-> index],
                        [msg |-> "Error processing", n |-> index]>>
                /\ UNCHANGED output_folder
    /\ index' = index + 1
    /\ UNCHANGED <<input_folder, pc_c>>
    /\ UNCHANGED notConv

\* return stats
ConvertReturn ==
    /\ pc_c = "loop"
    /\ index > Len(input_folder.image_files)
    /\ pc_c' = "returned"
    /\ UNCHANGED <<input_folder, output_folder, index, stats, c_stdout>>
    /\ UNCHANGED notConv

ConvNext ==
    \/ ConvertStart
    \/ ConvertOne
    \/ ConvertReturn

--------------------------------------------------------------------------
\* Specifications

DistIdle ==
    /\ dv1 = << >>
    /\ dv2 = << >>
    /\ dcall = "idle"
    /\ dret = << >>
    /\ drev = << >>

InitDist == DistInit /\ EvalIdle /\ SplitIdle /\ TrainIdle /\ ConvIdle

SpecDist == InitDist /\ [][DistNext]_vars

InitEval == EvalInit /\ DistIdle /\ SplitIdle /\ TrainIdle /\ ConvIdle

SpecEval == InitEval /\ [][EvalNext]_vars

InitSplit == SplitInit /\ DistIdle /\ EvalIdle /\ TrainIdle /\ ConvIdle

SpecSplit == InitSplit /\ [][SplitNext]_vars

\* split_dataset run up to MaxSplitRuns times in a row
SpecResplit == InitSplit /\ [][ResplitNext]_vars

InitTrain == TrainInit /\ DistIdle /\ EvalIdle /\ SplitIdle /\ ConvIdle

SpecTrain == InitTrain /\ [][TrainNext]_vars

InitConv == ConvInit /\ DistIdle /\ EvalIdle /\ SplitIdle /\ TrainIdle

SpecConv == InitConv /\ [][ConvNext]_vars

--------------------------------------------------------------------------
\* Properties

RowSum(m, t) == SumSeq([i \in DOMAIN CLASSES |-> confusion_matrices[m][t][CLASSES[i]]])

Processed(t) == Cardinality({i \in DOMAIN results : results[i].True_Class = t})

\* C1: in run_evaluation, after any number of processed samples, every row
\* of every metric's confusion matrix sums to the number of processed
\* samples of that true class, and each matrix sums to total_images.
C1_RowSums ==
    \A m \in MetricSet :
        /\ \A t \in ClassSet : RowSum(m, t) = Processed(t)
        /\ SumSeq([i \in DOMAIN CLASSES |-> RowSum(m, CLASSES[i])]) = total_images

C1_Witness ==
    /\ total_images >= 2
    /\ \E m \in MetricSet, t, p \in ClassSet : t # p /\ confusion_matrices[m][t][p] > 0
    /\ \E m \in MetricSet, t \in ClassSet : confusion_matrices[m][t][t] > 0

ClassIndex(c) == CHOOSE i \in DOMAIN CLASSES : CLASSES[i] = c

\* p has a minimal distance in d, and no class before p in CLASSES has it too
MinimalAndFirst(d, p) ==
    /\ \A k \in ClassSet : ~DistLess(d[k], d[p])
    /\ \A k \in ClassSet : ClassIndex(k) < ClassIndex(p) => DistLess(d[p], d[k])

\* C2: for the sample just processed and each metric, the distances are
\* those of the sample to the three centroids, the predicted class has a
\* minimal distance, and among the classes with the minimal distance it is
\* the first in CLASSES.
C2_ArgminFirst ==
    total_images > 0 =>
        LET row == results[Len(results)]
            x == test_dir[row.True_Class].vecs[row.Image.idx]
        IN  /\ row.Pred_E = preds["Euclidean"]
            /\ row.Pred_M = preds["Manhattan"]
            /\ row.Pred_C = preds["Cosine"]
            /\ \A m \in MetricSet :
                 /\ \A k \in ClassSet : dists[m][k] = Distance(m, x, centroid_dir[k])
                 /\ MinimalAndFirst(dists[m], preds[m])

C2_Witness ==
    /\ total_images > 0
    /\ \E m \in MetricSet :
         /\ preds[m] = CLASSES[2]
         /\ DistLess(dists[m][CLASSES[2]], dists[m][CLASSES[1]])
         /\ DistEq(dists[m][CLASSES[2]], dists[m][CLASSES[3]])
    /\ preds["Euclidean"] # preds["Cosine"]

UnhandledFaults == {"IndexError", "ZeroDivisionError", "KeyError"}

\* C3: run with every centroid present and no test sample, run_evaluation
\* does not end in an unhandled fault.
C3_EmptyTestSetHandled ==
    (pc_e = "done" /\ FirstMissing(centroid_dir) = 0 /\ total_images = 0)
        => e_outcome \notin UnhandledFaults

\* x and y are equal as real vectors
VecEq(x, y) == \A i \in Idx : x.num[i] * y.den = y.num[i] * x.den

\* C4: d_euclidean and d_manhattan are non-negative, symmetric and zero
\* exactly when the two vectors are equal, for two uint8 Sample Vectors and
\* for a Sample Vector and a float64 Centroid.
C4_MetricAxioms ==
    dcall \in {"d_euclidean", "d_manhattan"} =>
        /\ NonNegative(dret)
        /\ DistEq(dret, drev)
        /\ (IsZero(dret) <=> VecEq(dv1, dv2))

\* C5: for every class already split whose source folder holds
\* n >= SPLIT_COUNT image files: the test subset has SPLIT_COUNT files, the
\* train subset n - SPLIT_COUNT, they are disjoint and together the source
\* files; for the lists of the last iteration and for the folders written.
C5_SplitSizes ==
    \A j \in 1 .. s_ci - 1 :
        LET c == CLASSES[j]
            imgs == ImageFiles(raw_data[c])
            n == Cardinality(imgs)
        IN  (raw_data[c].exists /\ n >= SPLIT_COUNT) =>
              /\ Cardinality(dataset_test[c].files) = SPLIT_COUNT
              /\ Cardinality(dataset_train[c].files) = n - SPLIT_COUNT
              /\ dataset_test[c].files \cap dataset_train[c].files = {}
              /\ dataset_test[c].files \cup dataset_train[c].files = imgs
              /\ j = s_ci - 1 =>
                   /\ Len(test_files) = SPLIT_COUNT
                   /\ Len(train_files) = n - SPLIT_COUNT
                   /\ Range(test_files) \cap Range(train_files) = {}
                   /\ Range(test_files) \cup Range(train_files) = imgs

C5_Witness ==
    /\ pc_s = "done"
    /\ \E c \in ClassSet :
         /\ Cardinality(ImageFiles(raw_data[c])) > SPLIT_COUNT
         /\ dataset_train[c].files # {}
         /\ Cardinality(dataset_test[c].files) = SPLIT_COUNT

\* C6: with the centroid file of any class absent, run_evaluation processes
\* no test sample and writes no output file, and once it has run it has
\* ended reporting a centroid that is missing.
C6_MissingCentroidFatal ==
    (\E c \in ClassSet : centroid_dir[c] = Absent) =>
        /\ total_images = 0
        /\ results = << >>
        /\ written = {}
        /\ pc_e \notin {"start", "idle"} =>
             /\ pc_e = "done"
             /\ e_outcome = "missing_centroid"
             /\ \E i \in DOMAIN e_stdout :
                  /\ e_stdout[i].msg = "Missing centroid"
                  /\ centroid_dir[e_stdout[i].class] = Absent

C6_Witness ==
    /\ pc_e = "done"
    /\ e_outcome = "missing_centroid"
    /\ centroid_dir[CLASSES[1]] # Absent
    /\ centroid_dir[CLASSES[3]] # Absent
    /\ \E c \in ClassSet : test_dir[c].vecs # << >>

\* C7: after calculate_and_visualize_centroids has run, a class that had no
\* training vector in the preceding process_dataset run got an error
\* reported and no centroid written.
C7_NoVectorsNoCentroid ==
    pc_t \in {"edit", "done"} =>
        \A c \in ClassSet :
            n_vectors[c] = 0 =>
              /\ c \notin centroids_written
              /\ \E i \in DOMAIN t_stdout :
                   t_stdout[i].msg = "[Error] Matrix not found" /\ t_stdout[i].class = c

AllZero(v) == \A i \in Idx : v.num[i] = 0

\* C8: d_cosine returns the literal 1.0, without dividing, whenever one of
\* its arguments is all-zero; when it divides, neither norm is zero.
C8_ZeroNormIsOne ==
    dcall = "d_cosine" =>
        /\ (AllZero(dv1) \/ AllZero(dv2)) =>
              /\ dret = OnePointZero
              /\ drev = OnePointZero
              /\ ~dret.divided
        /\ dret.divided => (dret.n1.num > 0 /\ dret.n2.num > 0)

C8_Witness ==
    /\ dcall = "d_cosine"
    /\ ~AllZero(dv1)
    /\ AllZero(dv2)
    /\ dv2.dt = "f64"
    /\ dret = OnePointZero

\* the class a sample is nearest to under a metric, the first in CLASSES
\* among equals
NearestFirst(m, x) ==
    LET d == [k \in ClassSet |-> Distance(m, x, centroid_dir[k])]
    IN  CHOOSE p \in ClassSet : MinimalAndFirst(d, p)

TestSamples(t) == IF test_dir[t].exists THEN DOMAIN test_dir[t].vecs ELSE {}

ExpectedMatrix(m) ==
    [t \in ClassSet |->
        LET near == [i \in TestSamples(t) |-> NearestFirst(m, test_dir[t].vecs[i])]
        IN  [p \in ClassSet |-> Cardinality({i \in TestSamples(t) : near[i] = p})]]

\* C9: when run_evaluation has gone through the test files, in whatever
\* order each folder was listed, the confusion matrices, correct_counts and
\* total_images are those given by the set of labelled test vectors alone.
C9_OrderInvariant ==
    (pc_e = "done" /\ e_outcome # "missing_centroid") =>
        /\ \A m \in MetricSet :
             LET expected == ExpectedMatrix(m)
             IN  /\ confusion_matrices[m] = expected
                 /\ correct_counts[m] =
                      SumSeq([i \in DOMAIN CLASSES |-> expected[CLASSES[i]][CLASSES[i]]])
        /\ total_images = SumSeq([i \in DOMAIN CLASSES |-> Cardinality(TestSamples(CLASSES[i]))])

C9_Witness ==
    /\ pc_e = "done"
    /\ Len(results) = 2
    /\ results[1].True_Class = results[2].True_Class
    /\ results[1].Image.idx > results[2].Image.idx
    /\ results[1].Pred_E # results[2].Pred_E

\* what split_dataset prints to flag a problem
SplitAlerts == {"[Error] Missing source folder", "[Warning] Not enough images"}

\* C10: for every class already split whose source folder holds image
\* files, but fewer than SPLIT_COUNT: all of them are in the test folder, the
\* train folder is empty, and a warning about the class was printed.
C10_ShortClassWarned ==
    \A j \in 1 .. s_ci - 1 :
        LET c == CLASSES[j]
            imgs == ImageFiles(raw_data[c])
        IN  (raw_data[c].exists /\ imgs # {} /\ Cardinality(imgs) < SPLIT_COUNT) =>
              /\ dataset_test[c].files = imgs
              /\ dataset_train[c].files = {}
              /\ \E i \in DOMAIN s_stdout :
                   s_stdout[i].class = c /\ s_stdout[i].msg \in SplitAlerts

\* C12: at every point of any sequence of runs of split_dataset over the same
\* source folders, no class has a file name present both in its
\* dataset_train folder and in its dataset_test folder.
C12_TrainTestDisjoint ==
    \A c \in ClassSet : dataset_train[c].files \cap dataset_test[c].files = {}

\* the files of class c that the run of process_dataset just made failed on
FailedFiles(c) ==
    {i \in DOMAIN train_input[c].images : train_input[c].images[i] = Corrupt}

GoodFiles(c) == DOMAIN train_input[c].images \ FailedFiles(c)

\* the rows of Matrix_<c>.npy as it is on disk, none when there is no file
MatrixRows(c) == IF matrix_dir[c].exists THEN matrix_dir[c].rows ELSE << >>

\* the vectors of the good files of class c, in listing order
RECURSIVE GoodVectors(_, _)
GoodVectors(c, i) ==
    IF i > Len(train_input[c].images) THEN << >>
    ELSE (IF i \in GoodFiles(c) THEN <<train_input[c].images[i]>> ELSE << >>)
         \o GoodVectors(c, i + 1)

\* When process_dataset(create_matrix=True) has returned: every failed file
\* was reported, and the vector of every other file of every class is saved.
C11_ReportedAndKept ==
    pc_t = "centroids" =>
        \A c \in ClassSet : train_input[c].exists =>
            /\ \A i \in FailedFiles(c) : \E k \in DOMAIN t_stdout :
                  t_stdout[k] = [msg |-> "[Error] Could not process", class |-> c, n |-> i]
            /\ \A i \in GoodFiles(c) :
                  /\ i \in DOMAIN proc_train[c].vecs
                  /\ proc_train[c].vecs[i] = train_input[c].images[i]

\* C11: when process_dataset(create_matrix=True) has returned, every failed
\* file was reported, the vector of every other file of every class is saved,
\* and the class matrix of every class holds exactly the vectors of the files
\* processed successfully, one row each and none for a failed file.
C11_CorruptFileSkipped ==
    /\ C11_ReportedAndKept
    /\ pc_t = "centroids" =>
          \A c \in ClassSet :
              (train_input[c].exists /\ FailedFiles(c) # {}) =>
                  MatrixRows(c) = GoodVectors(c, 1)

\* the files of the source folder that convert_image_to_32x32 fails on
Unreadable == {i \in DOMAIN input_folder.image_files : ~input_folder.image_files[i].readable}

\* When convert_folder has returned: success + failed = total, every failed
\* file was reported and every other file converted, and stats['files'] has
\* exactly one entry per converted file.
C11_ConvertFolderCounts ==
    pc_c = "returned" =>
        /\ stats.success + stats.failed = stats.total
        /\ stats.failed = Cardinality(Unreadable)
        /\ \A i \in Unreadable :
              \E k \in DOMAIN c_stdout : c_stdout[k] = [msg |-> "Error processing", n |-> i]
        /\ output_folder = DOMAIN input_folder.image_files \ Unreadable
        /\ Len(stats.files) = stats.success
        /\ \A i \in output_folder :
              Cardinality({k \in DOMAIN stats.files : stats.files[k].converted = i}) = 1
        /\ \A k \in DOMAIN stats.files : stats.files[k].converted \in output_folder

C11_ConvertFolderReached ==
    /\ pc_c = "returned"
    /\ stats.failed >= 1
    /\ stats.success >= 2
    /\ ~input_folder.image_files[1].readable

====
